---- MODULE Spec2Model ----
(***************************************************************************)
(* Model of src/timesolv_api/timesolv_api.py: the TimeSolvAPI client.      *)
(* The client exchanges credentials for a bearer token on construction     *)
(* and then pages through the search endpoints of the service.  The        *)
(* service is the environment: every response it gives is an input.        *)
(***************************************************************************)
EXTENDS Integers, Sequences, FiniteSets, TLC

VARIABLES
    pc,            \* "new", "token_wait", "ready", "fetching", "failed"
    config_data,   \* argument of __init__ while the constructor runs
    access_token,  \* self.access_token
    headers,       \* self.headers
    op,            \* the method running, or the last one that ran
    page_number,   \* local page_number of the running list method
    records,       \* local accumulator of the running list method
    requests,      \* requests sent by op, in order
    responses,     \* responses received by op, in order
    outcome,       \* how op ended: a return value or a raised exception
    tokenPosts,    \* number of requests sent to the Token endpoint
    server,        \* responses the service gave for pages 1..Len(server)
    runs           \* list methods completed against the current server data

vars == <<pc, config_data, access_token, headers, op, page_number, records,
          requests, responses, outcome, tokenPosts, server, runs>>

\* Longest data set of the service, in full pages.
MaxPages == 2

\* page_size = 100 in every list method.
PageSize == 100

----------------------------------------------------------------------------
(* Python values *)

None == <<>>

Unset == "unset"

JNull == [t |-> "null", v |-> <<>>]

JArray(s) == [t |-> "array", v |-> s]

\* Python truth value of a JSON null or a JSON array.
Falsy(x) == x.t = "null" \/ x.v = <<>>

\* Variant of Get that reads whatever array the object holds, under any
\* name.
Get_any(d, key, default) ==
    IF DOMAIN d = {} THEN default ELSE d[CHOOSE k \in DOMAIN d : TRUE]

\* dict.get(key, default)
Get(d, key, default) == IF key \in DOMAIN d THEN d[key] ELSE default

\* Truth value of a credential returned by dict.get(key): None and ""
\* are false.
Truthy(d, key) == key \in DOMAIN d /\ d[key] # ""

Return(v) == [kind |-> "return", exc |-> "", msg |-> "", text |-> {}, value |-> v]

Raise(e, m, t) == [kind |-> "raise", exc |-> e, msg |-> m, text |-> t, value |-> <<>>]

NoOutcome == [kind |-> "none", exc |-> "", msg |-> "", text |-> {}, value |-> <<>>]

----------------------------------------------------------------------------
(* Credential mappings handed to the constructor *)

CredentialNames == {"client_id", "client_secret", "auth_code", "redirect_uri",
                    "authorization_code"}

UpperKey == [client_id |-> "CLIENT_ID", client_secret |-> "Client_Secret",
             auth_code |-> "Auth_Code", redirect_uri |-> "REDIRECT_URI",
             authorization_code |-> "Authorization_Code"]

\* Variant of lower that also takes authorization_code for auth_code.
lower_alias(k) ==
    CASE k = "CLIENT_ID" -> "client_id"
      [] k = "Client_Secret" -> "client_secret"
      [] k = "Auth_Code" -> "auth_code"
      [] k = "REDIRECT_URI" -> "redirect_uri"
      [] k = "Authorization_Code" -> "auth_code"
      [] k = "authorization_code" -> "auth_code"
      [] OTHER -> k

\* str.lower() on the keys that occur.
lower(k) ==
    CASE k = "CLIENT_ID" -> "client_id"
      [] k = "Client_Secret" -> "client_secret"
      [] k = "Auth_Code" -> "auth_code"
      [] k = "REDIRECT_URI" -> "redirect_uri"
      [] k = "Authorization_Code" -> "authorization_code"
      [] OTHER -> k

ValueA == [client_id |-> "id_a", client_secret |-> "secret_a",
           auth_code |-> "code_a", redirect_uri |-> "uri_a",
           authorization_code |-> "code_a"]

ValueB == [client_id |-> "id_b", client_secret |-> "secret_b",
           auth_code |-> "code_b", redirect_uri |-> "uri_b",
           authorization_code |-> "code_b"]

KeyOptions == {"absent", "empty", "lower", "upper", "lower_upper",
               "upper_lower", "lower_upperempty"}

\* The items of a mapping for one credential, in the mapping's order.
Items(c, o) ==
    CASE o = "absent" -> <<>>
      [] o = "empty" -> << <<c, "">> >>
      [] o = "lower" -> << <<c, ValueA[c]>> >>
      [] o = "upper" -> << <<UpperKey[c], ValueB[c]>> >>
      [] o = "lower_upper" -> << <<c, ValueA[c]>>, <<UpperKey[c], ValueB[c]>> >>
      [] o = "upper_lower" -> << <<UpperKey[c], ValueB[c]>>, <<c, ValueA[c]>> >>
      [] o = "lower_upperempty" -> << <<c, ValueA[c]>>, <<UpperKey[c], "">> >>

Configs ==
    { Items("client_id", o1) \o Items("client_secret", o2)
        \o Items("auth_code", o3) \o Items("redirect_uri", o4)
        \o Items("authorization_code", o5) :
      o1 \in KeyOptions, o2 \in KeyOptions, o3 \in KeyOptions,
      o4 \in KeyOptions, o5 \in {"absent", "lower", "upper"} }

RECURSIVE config_data_lower_first(_)
\* Variant of config_data_lower in which the first item with a lowered
\* key is kept.
config_data_lower_first(items) ==
    IF items = <<>> THEN <<>>
    ELSE LET last == items[Len(items)]
             front == SubSeq(items, 1, Len(items) - 1)
         IN  config_data_lower_first(front) @@ (lower(last[1]) :> last[2])

\* {k.lower(): v for k, v in config_data.items()}: a later item replaces
\* an earlier one with the same lowered key.
RECURSIVE config_data_lower(_)
config_data_lower(items) ==
    IF items = <<>> THEN <<>>
    ELSE LET last == items[Len(items)]
             front == SubSeq(items, 1, Len(items) - 1)
         IN  (lower(last[1]) :> last[2]) @@ config_data_lower(front)

----------------------------------------------------------------------------
(* The service: what it answers to one request *)

base_url == "https://apps.timesolv.com/Services/rest/oAuth2V1/"

\* A response on the wire.  net = "fail" is a connection failure; text is
\* the set of tokens in response.text; body is the decoded JSON object
\* when decodable.
Wire(n, s, d, b, t) == [net |-> n, status |-> s, decodable |-> d, body |-> b, text |-> t]

ConnectionFailure == Wire("fail", 0, FALSE, <<>>, {})

Tokens == {"tok1", "tok2"}

ErrorBody == ("error" :> "x") @@ ("error_description" :> "y")

ErrorText == {"error", "x", "error_description", "y"}

\* What the Token endpoint may answer.
TokenResponses ==
    { Wire("ok", 200, TRUE, ("access_token" :> t), {"access_token", t}) : t \in Tokens }
    \cup { Wire("ok", s, TRUE, ErrorBody, ErrorText) : s \in {200, 400, 500} }
    \cup { Wire("ok", 400, TRUE, ("access_token" :> "tok1"), {"access_token", "tok1"}) }
    \cup { Wire("ok", s, FALSE, <<>>, {"<html>"}) : s \in {200, 500} }
    \cup { ConnectionFailure }

\* Name of the result array of each search endpoint.
ArrayName == [firmUserSearch |-> "FirmUsers", timecardSearch |-> "TimeCards",
              taskcodeSearch |-> "TaskCodes", abbreviationSearch |-> "Abbreviations",
              clientSearch |-> "Clients"]

PageLens == {0, 1, 37, PageSize - 1, PageSize, PageSize + 1}

\* What a search endpoint may answer for one page: a page of len records,
\* an object without the result array, a null result array, an error
\* status, a connection failure, or a body that is not JSON.
ServerOptions ==
    { [kind |-> "page", len |-> n, style |-> st, status |-> 200] :
        n \in PageLens \ {0}, st \in {"asc", "rev"} }
    \cup { [kind |-> "page", len |-> 0, style |-> "asc", status |-> 200] }
    \cup { [kind |-> k, len |-> 0, style |-> "asc", status |-> 200] :
             k \in {"nokey", "null", "transport", "garbage"} }
    \cup { [kind |-> "http", len |-> 0, style |-> "asc", status |-> s] : s \in {404, 500} }

\* The records of page k, n of them, in the order the service returns them.
PageRecords(st, k, n) ==
    IF st = "asc" THEN [i \in 1..n |-> (k - 1) * PageSize + i]
    ELSE [i \in 1..n |-> (k - 1) * PageSize + (n + 1 - i)]

\* The response on the wire for page k of endpoint under option o.
Serve(endpoint, k, o) ==
    CASE o.kind = "page" ->
           Wire("ok", 200, TRUE,
                (ArrayName[endpoint] :> JArray(PageRecords(o.style, k, o.len))),
                {ArrayName[endpoint]})
      [] o.kind = "nokey" ->
           Wire("ok", 200, TRUE, ("Items" :> JArray(<<0>>)), {"Items"})
      [] o.kind = "null" ->
           Wire("ok", 200, TRUE, (ArrayName[endpoint] :> JNull), {ArrayName[endpoint]})
      [] o.kind = "http" -> Wire("ok", o.status, TRUE, ErrorBody, ErrorText)
      [] o.kind = "transport" -> ConnectionFailure
      [] o.kind = "garbage" -> Wire("ok", 200, FALSE, <<>>, {"<html>"})

\* A page is full when the loop will ask for the next one.
FullPage(o) == o.kind = "page" /\ o.len >= PageSize

\* The options for page k: replayed if the service already answered page
\* k of the current data, else any option; the data set has at most
\* MaxPages full pages.
OptionsFor(k) ==
    IF k <= Len(server) THEN {server[k]}
    ELSE IF k > MaxPages THEN {o \in ServerOptions : ~FullPage(o)}
    ELSE ServerOptions

----------------------------------------------------------------------------
(* _request *)

\* Variant of Send that does not pass the headers on.
Send_noheaders(method, endpoint, hdrs, json, data) ==
    [method |-> method, url |-> <<base_url, endpoint>>, headers |-> None,
     json |-> json, data |-> data]

\* The request _request hands to requests.request.
Send(method, endpoint, hdrs, json, data) ==
    [method |-> method, url |-> <<base_url, endpoint>>, headers |-> hdrs,
     json |-> json, data |-> data]

\* Variant of _request without the except clauses for a body that is not
\* JSON: the failure is swallowed and an empty object returned.
_request_swallow(response, legacy) ==
    IF response.net = "fail"
    THEN Raise("TimeSolvAPIError", "Error making request to", {})
    ELSE IF response.status >= 400
    THEN Raise("TimeSolvAPIError", "HTTP error occurred", response.text)
    ELSE IF ~response.decodable
    THEN Return(<<>>)
    ELSE Return(response.body)

\* Variant of _request without the except clause for requests.HTTPError:
\* the library's exception reaches the caller.
_request_unwrapped(response, legacy) ==
    IF response.net = "fail"
    THEN Raise("TimeSolvAPIError", "Error making request to", {})
    ELSE IF response.status >= 400
    THEN Raise("HTTPError", "HTTP error occurred", response.text)
    ELSE IF ~response.decodable
    THEN IF legacy
         THEN Raise("TimeSolvAPIError", "Error parsing JSON response from", {})
         ELSE Raise("TimeSolvAPIError", "Error making request to", {})
    ELSE Return(response.body)

\* The try/except of _request applied to the response.  legacy is TRUE
\* for a requests build whose JSON decode error is only a ValueError and
\* FALSE for one where it is also a RequestException, which the earlier
\* except clause catches.
_request(response, legacy) ==
    IF response.net = "fail"
    THEN Raise("TimeSolvAPIError", "Error making request to", {})
    ELSE IF response.status >= 400
    THEN Raise("TimeSolvAPIError", "HTTP error occurred", response.text)
    ELSE IF ~response.decodable
    THEN IF legacy
         THEN Raise("TimeSolvAPIError", "Error parsing JSON response from", {})
         ELSE Raise("TimeSolvAPIError", "Error making request to", {})
    ELSE Return(response.body)

----------------------------------------------------------------------------
(* Construction *)

Init ==
    /\ pc = "new"
    /\ config_data = <<>>
    /\ access_token = Unset
    /\ headers = None
    /\ op = "none"
    /\ page_number = 0
    /\ records = <<>>
    /\ requests = <<>>
    /\ responses = <<>>
    /\ outcome = NoOutcome
    /\ tokenPosts = 0
    /\ server = <<>>
    /\ runs = {}

\* __init__ up to the POST to Token: _get_access_token validates the
\* mapping and either raises or sends the grant.
__init__(cfg) ==
    /\ pc = "new"
    /\ config_data' = cfg
    /\ op' = "__init__"
    /\ LET d == config_data_lower(cfg)
       IN  IF Truthy(d, "client_id") /\ Truthy(d, "client_secret")
              /\ Truthy(d, "auth_code") /\ Truthy(d, "redirect_uri")
           THEN LET access_data ==
                      [client_id |-> d["client_id"],
                       client_secret |-> d["client_secret"],
                       grant_type |-> "authorization_code",
                       code |-> d["auth_code"],
                       redirect_uri |-> d["redirect_uri"]]
                IN  /\ requests' = <<Send("POST", "Token", None, None, access_data)>>
                    /\ tokenPosts' = tokenPosts + 1
                    /\ pc' = "token_wait"
                    /\ outcome' = NoOutcome
           ELSE /\ outcome' = Raise("TimeSolvAPIError",
                                    "Missing required authentication parameters.", {})
                /\ pc' = "failed"
                /\ UNCHANGED <<requests, tokenPosts>>
    /\ UNCHANGED <<access_token, headers, page_number, records, responses,
                   server, runs>>

\* The rest of __init__: the Token response goes through _request, the
\* token is read from it and the headers are built.
_get_access_token(response, legacy) ==
    /\ pc = "token_wait"
    /\ responses' = <<response>>
    /\ config_data' = <<>>
    /\ LET token_data == _request(response, legacy)
       IN  IF token_data.kind = "raise"
           THEN /\ outcome' = token_data
                /\ pc' = "failed"
                /\ UNCHANGED <<access_token, headers>>
           ELSE IF "access_token" \in DOMAIN token_data.value
           THEN /\ access_token' = token_data.value["access_token"]
                /\ headers' = ("Authorization" :> <<"Bearer", access_token'>>)
                                @@ ("Content-Type" :> "application/json")
                /\ outcome' = Return(<<>>)
                /\ pc' = "ready"
           ELSE /\ outcome' = Raise("KeyError", "access_token", {"access_token"})
                /\ pc' = "failed"
                /\ UNCHANGED <<access_token, headers>>
    /\ UNCHANGED <<op, page_number, records, requests, tokenPosts, server, runs>>

----------------------------------------------------------------------------
(* List methods *)

ListOps == {"get_firm_users", "get_timecards", "get_taskcodes",
            "get_abbreviations", "get_clients"}

Criterion(f, o, v) == [FieldName |-> f, Operator |-> o, Value |-> v]

\* The payload of a search request.
Payload(order_by, ascending, page_size, page, criteria) ==
    [OrderBy |-> order_by, SortOrderAscending |-> ascending,
     PageSize |-> page_size, PageNumber |-> page, Criteria |-> criteria]

\* What a completed list method did, for comparison between methods.
Summary(reqs, out) ==
    [reqs |-> [i \in 1..Len(reqs) |->
                 <<reqs[i].json.PageNumber, reqs[i].json.PageSize>>],
     kind |-> out.kind,
     len |-> Len(out.value)]

\* The name false (or true) in the payload literal is not defined: the
\* first evaluation of the payload raises NameError before any request.
UndefinedName(name, method) ==
    /\ pc = "ready"
    /\ op' = method
    /\ page_number' = 1
    /\ records' = <<>>
    /\ requests' = <<>>
    /\ responses' = <<>>
    /\ outcome' = Raise("NameError", name, {name})
    /\ runs' = runs \cup {Summary(requests', outcome')}
    /\ UNCHANGED <<pc, config_data, access_token, headers, tokenPosts, server>>

get_firm_users == UndefinedName("false", "get_firm_users")

\* The Criteria of the payload evaluate, then the name true does not.
get_timecards(firm_user_id, start_date, end_date) ==
    LET criteria == <<Criterion("FirmUserId", "=", firm_user_id),
                      Criterion("Date", ">=", start_date),
                      Criterion("Date", "<=", end_date)>>
    IN  Len(criteria) = 3 /\ UndefinedName("true", "get_timecards")

get_taskcodes == UndefinedName("false", "get_taskcodes")

\* Entry of a list method whose payload evaluates: the locals are set and
\* the request for page 1 is sent.
StartLoop(method, endpoint, order_by, ascending, criteria) ==
    /\ pc = "ready"
    /\ op' = method
    /\ records' = <<>>
    /\ page_number' = 1
    /\ requests' = <<Send("POST", endpoint, headers,
                           Payload(order_by, ascending, PageSize, 1, criteria),
                           None)>>
    /\ responses' = <<>>
    /\ outcome' = NoOutcome
    /\ pc' = "fetching"
    /\ UNCHANGED <<config_data, access_token, headers, tokenPosts, server, runs>>

\* Variant of ProcessPage that leaves the loop on a page of exactly
\* page_size records too.
ProcessPage_le(acc, page, page_size, page_no) ==
    IF Falsy(page)
    THEN [records |-> acc, page_number |-> page_no, brk |-> TRUE]
    ELSE IF Len(page.v) <= page_size
    THEN [records |-> acc \o page.v, page_number |-> page_no, brk |-> TRUE]
    ELSE [records |-> acc \o page.v, page_number |-> page_no + 1, brk |-> FALSE]

\* Variant of ProcessPage that puts each page in front of the earlier
\* ones.
ProcessPage_prepend(acc, page, page_size, page_no) ==
    IF Falsy(page)
    THEN [records |-> acc, page_number |-> page_no, brk |-> TRUE]
    ELSE IF Len(page.v) < page_size
    THEN [records |-> page.v \o acc, page_number |-> page_no, brk |-> TRUE]
    ELSE [records |-> page.v \o acc, page_number |-> page_no + 1, brk |-> FALSE]

\* The loop body after the response: page is the named array (or []).
\* brk tells whether the loop is left.
ProcessPage(acc, page, page_size, page_no) ==
    IF Falsy(page)
    THEN [records |-> acc, page_number |-> page_no, brk |-> TRUE]
    ELSE IF Len(page.v) < page_size
    THEN [records |-> acc \o page.v, page_number |-> page_no, brk |-> TRUE]
    ELSE [records |-> acc \o page.v, page_number |-> page_no + 1, brk |-> FALSE]

\* One iteration of the loop of a list method from the response to the
\* request of page page_number on: the method raises, returns, or sends
\* the request for the next page.
LoopStep(method, endpoint, array, order_by, ascending, criteria, o, legacy) ==
    /\ pc = "fetching"
    /\ op = method
    /\ o \in OptionsFor(page_number)
    /\ server' = IF page_number > Len(server) THEN Append(server, o) ELSE server
    /\ LET response == Serve(endpoint, page_number, o)
           response_data == _request(response, legacy)
       IN  /\ responses' = Append(responses, response)
           /\ IF response_data.kind = "raise"
              THEN /\ outcome' = response_data
                   /\ pc' = "ready"
                   /\ runs' = runs \cup {Summary(requests, outcome')}
                   /\ UNCHANGED <<records, page_number, requests>>
              ELSE LET page == Get(response_data.value, array, JArray(<<>>))
                       next == ProcessPage(records, page, PageSize, page_number)
                   IN  /\ records' = next.records
                       /\ page_number' = next.page_number
                       /\ IF next.brk
                          THEN /\ outcome' = Return(next.records)
                               /\ pc' = "ready"
                               /\ runs' = runs \cup {Summary(requests, outcome')}
                               /\ UNCHANGED requests
                          ELSE /\ requests' = Append(requests,
                                      Send("POST", endpoint, headers,
                                           Payload(order_by, ascending, PageSize,
                                                   next.page_number, criteria),
                                           None))
                               /\ UNCHANGED <<outcome, pc, runs>>
    /\ UNCHANGED <<config_data, access_token, headers, op, tokenPosts>>

abbreviations_criteria == <<Criterion("IsActive", "=", 1)>>

get_abbreviations ==
    StartLoop("get_abbreviations", "abbreviationSearch", "Id", FALSE,
              abbreviations_criteria)

get_abbreviations_page(o, legacy) ==
    LoopStep("get_abbreviations", "abbreviationSearch", "Abbreviations",
             "Id", FALSE, abbreviations_criteria, o, legacy)

clients_criteria == <<Criterion("ClientStatus", "=", "Active")>>

get_clients ==
    StartLoop("get_clients", "clientSearch", "Id", FALSE, clients_criteria)

get_clients_page(o, legacy) ==
    LoopStep("get_clients", "clientSearch", "Clients",
             "Id", FALSE, clients_criteria, o, legacy)

\* The data of the service changes between two calls.
ServerChange ==
    /\ pc = "ready"
    /\ server # <<>> \/ runs # {}
    /\ server' = <<>>
    /\ runs' = {}
    /\ UNCHANGED <<pc, config_data, access_token, headers, op, page_number,
                   records, requests, responses, outcome, tokenPosts>>

Next ==
    \/ \E cfg \in Configs : __init__(cfg)
    \/ \E r \in TokenResponses, legacy \in BOOLEAN : _get_access_token(r, legacy)
    \/ get_firm_users
    \/ \E u \in {7} : get_timecards(u, "2024-01-01", "2024-01-31")
    \/ get_taskcodes
    \/ get_abbreviations
    \/ \E o \in ServerOptions, legacy \in BOOLEAN : get_abbreviations_page(o, legacy)
    \/ get_clients
    \/ \E o \in ServerOptions, legacy \in BOOLEAN : get_clients_page(o, legacy)
    \/ ServerChange

Spec == Init /\ [][Next]_vars

----------------------------------------------------------------------------
(* Vocabulary of the properties *)

LoopOps == {"get_abbreviations", "get_clients"}

ArrayOfOp == [get_abbreviations |-> "Abbreviations", get_clients |-> "Clients"]

\* The response is one _request returns: it arrived, its status is no
\* error status and its body is JSON.
Good(r) == r.net = "ok" /\ r.status < 400 /\ r.decodable

Failed(r) == ~Good(r)

FailureClass(r) ==
    IF r.net = "fail" THEN "transport"
    ELSE IF r.status >= 400 THEN "status"
    ELSE IF ~r.decodable THEN "decode"
    ELSE "none"

\* The response holds the result array of the running method.
HasArray(r) ==
    /\ Good(r)
    /\ ArrayOfOp[op] \in DOMAIN r.body
    /\ r.body[ArrayOfOp[op]].t = "array"

\* The records the response holds in the result array, none if it has no
\* such array.
ArrayIn(r) == IF HasArray(r) THEN r.body[ArrayOfOp[op]].v ELSE <<>>

RECURSIVE Concat(_, _)
\* The arrays of responses 1..k one after the other.
Concat(rs, k) == IF k = 0 THEN <<>> ELSE Concat(rs, k - 1) \o ArrayIn(rs[k])

PageNumberOf(i) == requests[i].json.PageNumber

\* The requests are for pages 1, 2, ..., one each, with PageSize 100.
PagesInOrder ==
    \A i \in 1..Len(requests) :
        PageNumberOf(i) = i /\ requests[i].json.PageSize = 100

\* The service holds N records and serves them 100 to a page: every
\* response is a page, all but the last hold 100 and the last fewer.
WellBehaved ==
    /\ responses # <<>>
    /\ \A j \in 1..Len(responses) :
         /\ HasArray(responses[j])
         /\ j < Len(responses) => Len(ArrayIn(responses[j])) = 100
         /\ j = Len(responses) => Len(ArrayIn(responses[j])) < 100

BearerHeaders(t) ==
    ("Authorization" :> <<"Bearer", t>>) @@ ("Content-Type" :> "application/json")

Spellings(c) == {c, UpperKey[c]}

\* No key of the mapping is a spelling of c.
Missing(c, cfg) == \A i \in 1..Len(cfg) : cfg[i][1] \notin Spellings(c)

\* Some key of the mapping that is a spelling of c has a non-empty value.
Supplies(c, cfg) ==
    \E i \in 1..Len(cfg) : cfg[i][1] \in Spellings(c) /\ cfg[i][2] # ""

\* The value under the last key of the mapping that is a spelling of c.
LastValue(c, cfg) ==
    IF Missing(c, cfg) THEN ""
    ELSE LET i == CHOOSE i \in 1..Len(cfg) :
                    /\ cfg[i][1] \in Spellings(c)
                    /\ \A j \in (i + 1)..Len(cfg) : cfg[j][1] \notin Spellings(c)
         IN  cfg[i][2]

\* The constructor has validated config_data and no Token response has
\* arrived yet.
Validated == op = "__init__" /\ responses = <<>> /\ pc \in {"token_wait", "failed"}

SpecCredentials == {"client_id", "client_secret", "authorization_code", "redirect_uri"}

CodeCredentials == {"client_id", "client_secret", "auth_code", "redirect_uri"}

----------------------------------------------------------------------------
(* C1 *)

\* C1: in get_clients and get_abbreviations the first request is for page
\* 1 with PageSize 100; after a page of exactly 100 records the next
\* request is for the next page; after the first page of fewer than 100
\* records (0 included) no further request is sent; so a service holding
\* N records gets N \div 100 + 1 requests and the result has N records.
C1_PaginationStops ==
    op \in LoopOps =>
      /\ requests # <<>> /\ PageNumberOf(1) = 1
      /\ \A i \in 1..Len(requests) : requests[i].json.PageSize = 100
      /\ \A j \in 1..Len(responses) :
           HasArray(responses[j]) =>
             /\ Len(ArrayIn(responses[j])) = 100 =>
                  /\ Len(requests) > j
                  /\ PageNumberOf(j + 1) = PageNumberOf(j) + 1
             /\ Len(ArrayIn(responses[j])) < 100 =>
                  /\ Len(requests) = j
                  /\ Len(responses) = j
                  /\ pc = "ready"
      /\ (pc = "ready" /\ WellBehaved) =>
           /\ outcome.kind = "return"
           /\ Len(requests) = (Len(Concat(responses, Len(responses))) \div 100) + 1
           /\ Len(outcome.value) = Len(Concat(responses, Len(responses)))

\* Page 1 held 100 records and page 2 none: 100 records, 2 requests.
C1_Witness ==
    /\ op = "get_clients" /\ pc = "ready" /\ outcome.kind = "return"
    /\ Len(responses) = 2 /\ HasArray(responses[2])
    /\ Len(ArrayIn(responses[1])) = 100 /\ Len(ArrayIn(responses[2])) = 0
    /\ Len(requests) = 2 /\ Len(outcome.value) = 100

----------------------------------------------------------------------------
(* C2 *)

\* C2: when get_clients or get_abbreviations returns, the list returned
\* is the arrays of pages 1..k one after the other, each in the order
\* the service returned it, and pages 1..k were requested once each in
\* increasing order.
C2_ResultIsConcatenation ==
    (op \in LoopOps /\ pc = "ready" /\ outcome.kind = "return") =>
      /\ Len(requests) = Len(responses)
      /\ PagesInOrder
      /\ outcome.value = Concat(responses, Len(responses))

\* A fetch returned three pages, the first in descending order.
C2_Witness ==
    /\ op \in LoopOps /\ pc = "ready" /\ outcome.kind = "return"
    /\ Len(responses) = 3
    /\ Len(outcome.value) > 200
    /\ outcome.value[1] > outcome.value[2]

----------------------------------------------------------------------------
(* C3 *)

----------------------------------------------------------------------------
(* C4 *)

----------------------------------------------------------------------------
(* C5 *)

----------------------------------------------------------------------------
(* C6 *)

\* C6: when the Token response carries no access_token, whatever its
\* status, construction fails with an error that contains the
\* error_description of the response, and no client holds a token.
C6_NoTokenIsAuthenticationError ==
    (/\ op = "__init__" /\ responses # <<>> /\ responses[1].net = "ok"
     /\ "access_token" \notin DOMAIN responses[1].body) =>
      /\ pc = "failed"
      /\ outcome.kind = "raise"
      /\ access_token = Unset
      /\ "y" \in responses[1].text => "y" \in outcome.text

----------------------------------------------------------------------------
(* C7 *)

\* The last response of the running or last method.
LastResponse == responses[Len(responses)]

AllResponses ==
    TokenResponses \cup
    { Serve("clientSearch", 1, o) : o \in ServerOptions }

----------------------------------------------------------------------------
(* C8 *)

\* C8: all list methods run against the same data of the service issue
\* the same PageNumber/PageSize requests and return lists of the same
\* length.
C8_SamePaginationContract ==
    \A r1 \in runs, r2 \in runs : r1.reqs = r2.reqs /\ r1.len = r2.len /\ r1.kind = r2.kind

----------------------------------------------------------------------------
(* C9 *)

\* One step of a constructed client keeps the token, sends nothing to
\* Token and leaves every search request with the bearer headers.
TokenKept ==
    pc \in {"ready", "fetching"} =>
      /\ access_token' = access_token
      /\ tokenPosts' = tokenPosts
      /\ op' \in ListOps =>
           \A i \in 1..Len(requests') :
             /\ requests'[i].url[2] # "Token"
             /\ requests'[i].headers = BearerHeaders(access_token)

\* C9: once the client is constructed its token never changes, the Token
\* endpoint is not contacted again, and every search request carries
\* Authorization: Bearer <token> and Content-Type: application/json.
C9_TokenFixedAndSent == [][TokenKept]_vars

\* A fetch under tok2 failed on its second page, one Token request ever.
C9_Witness ==
    /\ op = "get_abbreviations" /\ pc = "ready"
    /\ access_token = "tok2" /\ tokenPosts = 1
    /\ Len(requests) = 2 /\ outcome.kind = "raise"
    /\ requests[2].headers = BearerHeaders("tok2")

----------------------------------------------------------------------------
(* C10 *)

\* The response is good but holds no record under the result array: the
\* key is absent, or its value is null or empty.
NoArray(r) == Good(r) /\ ArrayIn(r) = <<>>

\* C10: a good response for page k without the result array (absent, null
\* or empty) ends the fetch without error and without a further request,
\* and the fetch returns the records of pages 1..k-1.
C10_MissingArrayIsEmptyPage ==
    op \in LoopOps =>
      \A k \in 1..Len(responses) :
        NoArray(responses[k]) =>
          /\ pc = "ready"
          /\ Len(responses) = k
          /\ Len(requests) = k
          /\ outcome.kind = "return"
          /\ outcome.value = Concat(responses, k - 1)

\* Page 2 came without the key after a full page 1.
C10_Witness ==
    /\ op = "get_clients" /\ pc = "ready"
    /\ Len(responses) = 2
    /\ Good(responses[2]) /\ "Clients" \notin DOMAIN responses[2].body
    /\ outcome.kind = "return" /\ Len(outcome.value) = 100

====
